---- MODULE Spec2Model ----
(***************************************************************************)
(* A model of hook.py, the dehydrated/letsencrypt DNS-01 hook for          *)
(* Cloudflare.  One hook invocation is one operating-system process: it    *)
(* loads the module (credentials, resolver list), dispatches on the        *)
(* operation name and runs the handler.  The Cloudflare API and the DNS    *)
(* resolver are the environment: every HTTP call may answer with an error  *)
(* status, every TXT query with any answer or a resolver exception.        *)
(***************************************************************************)
EXTENDS Integers, Sequences, FiniteSets, TLC

VARIABLES
    env,        \* os.environ: a function from the names that are set to their values
    script,     \* the operation names the ACME client has still to invoke the hook with
    argv,       \* the arguments (after the operation name) the client passes
    proc,       \* proc[p]: the state of hook invocation p (one process each)
    records,    \* the DNS records the provider holds
    next_id,    \* the id the provider gives to the next record it creates
    records0,   \* history: the records the provider held before the first invocation
    calls       \* history: every provider call, sleep and TXT query made so far

vars == <<env, script, argv, proc, records, next_id, records0, calls>>

----------------------------------------------------------------------------
(* Bounds of the model *)

\* longest value of a credential variable in the credential specification
MaxEnvLen == 4
\* most (domain, payload, token) triples in one batch
MaxBatch == 2
\* most TXT queries of one behaviour that are answered without the token (the
\* polling loop itself has no limit)
MaxRetries == 1
\* most hook invocations in one behaviour
MaxInvocations == 2

Procs == 1..MaxInvocations

----------------------------------------------------------------------------
(* Strings of the environment: sequences of characters, so that split()   *)
(* and int() are computed and not assumed.                                 *)

Chars == {"a", " "}
Whitespace == {" "}

RECURSIVE StringsUpTo(_)
StringsUpTo(n) ==
    IF n = 0 THEN {<<>>}
    ELSE LET shorter == StringsUpTo(n - 1)
         IN  shorter \cup {Append(s, c) : s \in {t \in shorter : Len(t) = n - 1}, c \in Chars}

Min(a, b) == IF a <= b THEN a ELSE b

\* str.split() without arguments: the maximal runs of non-whitespace, in order
RECURSIVE SplitFrom(_, _, _)
SplitFrom(s, j, word) ==
    IF j > Len(s) THEN (IF word = <<>> THEN <<>> ELSE <<word>>)
    ELSE IF s[j] \in Whitespace
         THEN (IF word = <<>> THEN <<>> ELSE <<word>>) \o SplitFrom(s, j + 1, <<>>)
         ELSE SplitFrom(s, j + 1, Append(word, s[j]))

Split(s) == SplitFrom(s, 1, <<>>)

\* a pairing that gives every email the first key
ZipFirst(a, b) == [j \in 1..Min(Len(a), Len(b)) |-> <<a[j], b[1]>>]

\* zip(a, b): pairs by position, as long as the shorter list
Zip(a, b) == [j \in 1..Min(Len(a), Len(b)) |-> <<a[j], b[j]>>]

\* int(s) for the decimal strings of the model; ok = FALSE is ValueError
Digits == [c \in {"0", "1"} |-> IF c = "0" THEN 0 ELSE 1]

RECURSIVE DigitsValue(_, _, _)
DigitsValue(s, j, acc) ==
    IF j > Len(s) THEN acc
    ELSE DigitsValue(s, j + 1, 10 * acc + Digits[s[j]])

ParseInt(s) ==
    LET neg  == Len(s) > 0 /\ s[1] = "-"
        body == IF neg THEN Tail(s) ELSE s
    IN  IF body = <<>> \/ \E j \in 1..Len(body) : body[j] \notin DOMAIN Digits
        THEN [ok |-> FALSE, value |-> 0]
        ELSE [ok |-> TRUE,
              value |-> IF neg THEN 0 - DigitsValue(body, 1, 0) ELSE DigitsValue(body, 1, 0)]

----------------------------------------------------------------------------
(* Module load: lines 21-51 *)

NoText == <<>>

BearerHeader(api_token) ==
    [scheme |-> "Bearer", token |-> api_token, email |-> NoText, key |-> NoText]

EmailKeyHeader(pair) ==
    [scheme |-> "X-Auth", token |-> NoText, email |-> pair[1], key |-> pair[2]]

TokenHeaders(e) ==
    LET tokens == Split(e["CF_API_TOKEN"])
    IN  [j \in 1..Len(tokens) |-> BearerHeader(tokens[j])]

EmailKeyHeaders(e) ==
    LET pairs == Zip(Split(e["CF_EMAIL"]), Split(e["CF_KEY"]))
    IN  [j \in 1..Len(pairs) |-> EmailKeyHeader(pairs[j])]

\* a resolver that appends the email/key contexts even when CF_API_TOKEN is set
HeadersFromBothSources(e) ==
    IF "CF_API_TOKEN" \in DOMAIN e
    THEN [ok |-> TRUE,
          headers |-> TokenHeaders(e) \o
                      (IF {"CF_EMAIL", "CF_KEY"} \subseteq DOMAIN e
                       THEN EmailKeyHeaders(e) ELSE <<>>)]
    ELSE IF {"CF_EMAIL", "CF_KEY"} \subseteq DOMAIN e
         THEN [ok |-> TRUE, headers |-> EmailKeyHeaders(e)]
         ELSE [ok |-> FALSE, headers |-> <<>>]

\* a resolver that falls back to the email/key source when CF_API_TOKEN holds
\* no token
SourceWithFallback(e) ==
    IF "CF_API_TOKEN" \in DOMAIN e /\ TokenHeaders(e) # <<>>
    THEN [ok |-> TRUE, headers |-> TokenHeaders(e)]
    ELSE IF {"CF_EMAIL", "CF_KEY"} \subseteq DOMAIN e
         THEN [ok |-> TRUE, headers |-> EmailKeyHeaders(e)]
         ELSE [ok |-> FALSE, headers |-> <<>>]

\* lines 25-41: the token source if CF_API_TOKEN is set, else the email/key
\* source; ok = FALSE is the KeyError of the inner try (sys.exit(1), line 41)
CredentialSource(e) ==
    IF "CF_API_TOKEN" \in DOMAIN e
    THEN [ok |-> TRUE, headers |-> TokenHeaders(e)]
    ELSE IF {"CF_EMAIL", "CF_KEY"} \subseteq DOMAIN e
         THEN [ok |-> TRUE, headers |-> EmailKeyHeaders(e)]
         ELSE [ok |-> FALSE, headers |-> <<>>]

\* lines 47-51
DnsServers(e) ==
    IF "CF_DNS_SERVERS" \in DOMAIN e THEN Split(e["CF_DNS_SERVERS"]) ELSE <<>>

----------------------------------------------------------------------------
(* The provider (Cloudflare API v4) as the hook sees it *)

ZoneNames == {"example.com", "example.org"}

\* the zone each registrable domain is managed in
ZoneIdOf == [z \in ZoneNames |-> IF z = "example.com" THEN "zone-com" ELSE "zone-org"]

\* the principals (API token, or account email) that may list each zone
ZoneAccess ==
    [z \in ZoneNames |-> IF z = "example.com" THEN {<<"a">>, <<"a", "a">>}
                                               ELSE {<<"a", "a">>}]

Principal(auth) == IF auth.scheme = "Bearer" THEN auth.token ELSE auth.email

\* GET zones?name=<tld> with the headers auth: the 'result' list of the answer
ZoneList(auth, tld) ==
    IF tld \in ZoneNames /\ Principal(auth) \in ZoneAccess[tld]
    THEN <<[id |-> ZoneIdOf[tld], name |-> tld]>>
    ELSE <<>>

\* the elements of a finite set of records, ordered by id
RECURSIVE SortById(_)
SortById(S) ==
    IF S = {} THEN <<>>
    ELSE LET first == CHOOSE r \in S : \A o \in S : r.id <= o.id
         IN  <<first>> \o SortById(S \ {first})

\* the answer to a lookup whose URL leaves out the content filter
RecordListByName(recs, zone_id, name, token) ==
    SortById({r \in recs : /\ r.zone_id = zone_id
                           /\ r.type = "TXT"
                           /\ r.name = name})

\* GET zones/<zone_id>/dns_records?type=TXT&name=<name>&content=<token>: 'result'
RecordList(recs, zone_id, name, token) ==
    SortById({r \in recs : /\ r.zone_id = zone_id
                           /\ r.type = "TXT"
                           /\ r.name = name
                           /\ r.content = token})

----------------------------------------------------------------------------
(* Pure parts of the hook *)

\* the value of 'record_id' when the lookup finds nothing (Python's None)
None == 0

DefaultSettleTime == <<"1", "0">>

TTL == 120

BackoffSeconds == 30

ChunkSize == 3

AcmePrefix == "_acme-challenge"

\* get_fld('http://' + domain) of the tld package: the registrable domain,
\* "error" standing for the exception it raises on a URL without one
GetFld(domain) ==
    CASE domain = "example.com"     -> "example.com"
      [] domain = "www.example.org" -> "example.org"
      [] OTHER                      -> "error"

\* "{0}.{1}".format('_acme-challenge', domain): lines 109, 137, 177
RecordName(domain) == AcmePrefix \o "." \o domain

\* args[i:i+X] for the 0-based index i
Slice(args, i, n) == SubSeq(args, i + 1, Min(i + n, Len(args)))

\* a lookup that never finds the record
NeverFound(result) == None

\* lines 94-100: the id of the first result, or None
FirstRecordId(result) == IF Len(result) = 0 THEN None ELSE result[1].id

\* lines 117-122: the body of the create call
CreatePayload(name, token) ==
    [type |-> "TXT", name |-> name, content |-> token, ttl |-> TTL]

\* the operation table of main, lines 200-208
Ops == [deploy_challenge  |-> "create_all_txt_records",
        clean_challenge   |-> "delete_all_txt_records",
        deploy_cert       |-> "deploy_cert",
        unchanged_cert    |-> "unchanged_cert",
        invalid_challenge |-> "invalid_challenge",
        startup_hook      |-> "startup_hook",
        exit_hook         |-> "exit_hook"]

OpNames == DOMAIN Ops

\* A TXT answer is a sequence of rdata, each a sequence of byte strings; a byte
\* string either decodes as UTF-8 to 'text' or does not decode at all.
Bytes(text) == [utf8 |-> TRUE, text |-> text]
BadBytes == [utf8 |-> FALSE, text |-> ""]

\* lines 63-65 on the answer 'rrset': "True", "False" or "raise" (the
\* UnicodeDecodeError of b.decode('utf-8'), which is not a DNSException)
RECURSIVE ScanAnswer(_, _, _)
ScanAnswer(rrset, j, token) ==
    IF j > Len(rrset) THEN "False"
    ELSE LET strs == rrset[j]
         IN  IF \E n \in 1..Len(strs) : ~strs[n].utf8 THEN "raise"
             ELSE IF \E n \in 1..Len(strs) : strs[n].text = token THEN "True"
             ELSE ScanAnswer(rrset, j + 1, token)

\* lines 54-70: the resolver's response is an exception or an answer
HasDnsPropagated(response, token) ==
    IF response.exception # "" THEN "False"
    ELSE ScanAnswer(response.answer, 1, token)

----------------------------------------------------------------------------
(* One hook invocation *)

NoAuth == [scheme |-> "", token |-> NoText, email |-> NoText, key |-> NoText]

Idle ==
    [pc |-> "idle", op |-> "", args |-> <<>>, CF_HEADERS |-> <<>>, dns_servers |-> <<>>,
     settle_time |-> 0, i |-> 0, k |-> 0, tld |-> "", auth |-> NoAuth, zone_id |-> "",
     name |-> "", token |-> "", record_id |-> None,
     exit_code |-> 0, error |-> ""]

\* the process ends: sys.exit(code), an uncaught exception (code 1) or the
\* end of the script (code 0)
Exit(pr, code, error) ==
    [pr EXCEPT !.pc = "exited", !.exit_code = code, !.error = error]

NoResponse == [exception |-> "", answer |-> <<>>]

\* an entry of the history
Event(p, call) ==
    [proc |-> p, call |-> call, i |-> proc[p].i, auth |-> NoAuth, zone |-> "",
     name |-> "", content |-> "", ttl |-> 0, id |-> None, seconds |-> 0,
     response |-> NoResponse, result |-> "", status |-> "ok"]

Log(event) == calls' = Append(calls, event)

\* the client starts the hook: main(sys.argv[1:]) with the next operation name
Invoke(p) ==
    /\ proc[p].pc = "idle"
    /\ script # <<>>
    /\ \A q \in 1..(p - 1) : proc[q].pc # "idle"
    /\ proc' = [proc EXCEPT ![p] = [Idle EXCEPT !.pc = "load", !.op = Head(script),
                                                !.args = argv]]
    /\ script' = Tail(script)
    /\ UNCHANGED <<env, argv, records, next_id, records0, calls>>

\* lines 21-51, run when the module is loaded
LoadModule(p) ==
    /\ proc[p].pc = "load"
    /\ LET source == CredentialSource(env)
       IN  proc' = [proc EXCEPT ![p] =
                IF ~source.ok
                THEN Exit(@, 1, "Unable to locate Cloudflare credentials")
                ELSE IF source.headers = <<>>
                THEN Exit([@ EXCEPT !.CF_HEADERS = source.headers], 1,
                          "No valid Cloudflare credentials")
                ELSE [@ EXCEPT !.pc = "main", !.CF_HEADERS = source.headers,
                               !.dns_servers = DnsServers(env)]]
    /\ UNCHANGED <<env, script, argv, records, next_id, records0, calls>>

\* a main that ends with an error on an operation name it does not know
MainRejectsUnknown(p) ==
    /\ proc[p].pc = "main"
    /\ proc' = [proc EXCEPT ![p] =
            IF @.op \in OpNames
            THEN [@ EXCEPT !.pc = Ops[proc[p].op]]
            ELSE Exit(@, 1, "KeyError")]
    /\ UNCHANGED <<env, script, argv, records, next_id, records0, calls>>

\* lines 199-211
Main(p) ==
    /\ proc[p].pc = "main"
    /\ proc' = [proc EXCEPT ![p] =
            IF @.op \in OpNames
            THEN [@ EXCEPT !.pc = Ops[proc[p].op]]
            ELSE Exit(@, 0, "")]
    /\ UNCHANGED <<env, script, argv, records, next_id, records0, calls>>

\* lines 149-164 and 188-196: the handlers that only log
NotifyResult(op, args) ==
    CASE op = "deploy_cert" /\ Len(args) # 6       -> "ValueError"
      [] op = "invalid_challenge" /\ Len(args) = 0 -> "IndexError"
      [] OTHER                                     -> ""

Notify(p) ==
    /\ proc[p].pc \in {"deploy_cert", "unchanged_cert", "invalid_challenge",
                       "startup_hook", "exit_hook"}
    /\ LET error == NotifyResult(proc[p].pc, proc[p].args)
       IN  proc' = [proc EXCEPT ![p] = Exit(@, IF error = "" THEN 0 ELSE 1, error)]
    /\ UNCHANGED <<env, script, argv, records, next_id, records0, calls>>

\* the resolver responses a TXT query for 'token' is answered with
DnsResponses(token) ==
    LET other == IF token = "tok123" THEN "tok456" ELSE "tok123"
        Answer(rrset) == [exception |-> "", answer |-> rrset]
    IN  {[exception |-> "NXDOMAIN", answer |-> <<>>],
         Answer(<<<<Bytes(other)>>>>),
         Answer(<<<<Bytes(other)>>, <<Bytes(token)>>>>),
         Answer(<<<<BadBytes>>, <<Bytes(token)>>>>)}

\* line 168, and the start of the first loop of create_all_txt_records
CreateAllEnter(p) ==
    /\ proc[p].pc = "create_all_txt_records"
    /\ LET text == IF "CF_SETTLE_TIME" \in DOMAIN env THEN env["CF_SETTLE_TIME"]
                   ELSE DefaultSettleTime
           parsed == ParseInt(text)
       IN  proc' = [proc EXCEPT ![p] =
                IF parsed.ok
                THEN [@ EXCEPT !.pc = "create_loop", !.settle_time = parsed.value, !.i = 0]
                ELSE Exit(@, 1, "ValueError")]
    /\ UNCHANGED <<env, script, argv, records, next_id, records0, calls>>

\* what a loop over range(0, len(args), X) does after the body for index i
NextIndex(i) == i + ChunkSize

\* a create_txt_record that keeps the context and zone id of the triple before
CreateLoopStepCached(pr) ==
    LET chunk == Slice(pr.args, pr.i, ChunkSize)
    IN  IF pr.i >= Len(pr.args) THEN [pr EXCEPT !.pc = "settle"]
        ELSE IF Len(chunk) # 3 THEN Exit(pr, 1, "ValueError")
        ELSE IF GetFld(chunk[1]) = "error" THEN Exit(pr, 1, "TldBadUrl")
        ELSE IF pr.zone_id # ""
        THEN [pr EXCEPT !.pc = "lookup", !.tld = GetFld(chunk[1]),
                        !.name = RecordName(chunk[1]), !.token = chunk[3]]
        ELSE [pr EXCEPT !.pc = "zone_query", !.tld = GetFld(chunk[1]), !.k = 1,
                        !.token = chunk[3]]

\* a create_txt_record that publishes the second element of the triple
CreateLoopStepPayload(pr) ==
    LET chunk == Slice(pr.args, pr.i, ChunkSize)
    IN  IF pr.i >= Len(pr.args) THEN [pr EXCEPT !.pc = "settle"]
        ELSE IF Len(chunk) # 3 THEN Exit(pr, 1, "ValueError")
        ELSE IF GetFld(chunk[1]) = "error" THEN Exit(pr, 1, "TldBadUrl")
        ELSE [pr EXCEPT !.pc = "zone_query", !.tld = GetFld(chunk[1]), !.k = 1,
                        !.token = chunk[2]]

\* lines 170-171 with 104-108 (to the zone lookup), or the end of the first loop
CreateLoopStep(pr) ==
    LET chunk == Slice(pr.args, pr.i, ChunkSize)
    IN  IF pr.i >= Len(pr.args) THEN [pr EXCEPT !.pc = "settle"]
        ELSE IF Len(chunk) # 3 THEN Exit(pr, 1, "ValueError")
        ELSE IF GetFld(chunk[1]) = "error" THEN Exit(pr, 1, "TldBadUrl")
        ELSE [pr EXCEPT !.pc = "zone_query", !.tld = GetFld(chunk[1]), !.k = 1,
                        !.token = chunk[3]]

CreateLoop(p) ==
    /\ proc[p].pc = "create_loop"
    /\ proc' = [proc EXCEPT ![p] = CreateLoopStep(proc[p])]
    /\ UNCHANGED <<env, script, argv, records, next_id, records0, calls>>

\* a _get_zone_id that queries every context and decides on the last answer
AfterZoneListNoBreak(pr, r, token_mode) ==
    IF pr.k < Len(pr.CF_HEADERS) THEN [pr EXCEPT !.k = pr.k + 1]
    ELSE IF r # <<>>
    THEN [pr EXCEPT !.pc = "lookup", !.auth = pr.CF_HEADERS[pr.k], !.zone_id = r[1].id,
                    !.name = RecordName(pr.args[pr.i + 1])]
    ELSE Exit(pr, 1, "Domain not found in any Cloudflare account")

\* a _get_zone_id that gives up on the domain alone when no context lists its
\* zone, the batch going on with the next triple
AfterZoneListSkip(pr, r, token_mode) ==
    IF r # <<>>
    THEN [pr EXCEPT !.pc = "lookup", !.auth = pr.CF_HEADERS[pr.k], !.zone_id = r[1].id,
                    !.name = RecordName(pr.args[pr.i + 1])]
    ELSE IF pr.k < Len(pr.CF_HEADERS) THEN [pr EXCEPT !.k = pr.k + 1]
    ELSE [pr EXCEPT !.pc = IF pr.op = "deploy_challenge" THEN "create_loop"
                           ELSE "delete_loop",
                    !.i = NextIndex(pr.i)]

\* lines 80-87: what _get_zone_id does with the result list r of the query
\* made with CF_HEADERS[k]
AfterZoneList(pr, r, token_mode) ==
    IF r # <<>>
    THEN [pr EXCEPT !.pc = "lookup", !.auth = pr.CF_HEADERS[pr.k], !.zone_id = r[1].id,
                    !.name = RecordName(pr.args[pr.i + 1])]
    ELSE IF pr.k < Len(pr.CF_HEADERS) THEN [pr EXCEPT !.k = pr.k + 1]
    ELSE Exit(pr, 1, IF token_mode
                     THEN "None of the provided API Tokens have the required permissions"
                     ELSE "Domain not found in any Cloudflare account")

\* a _get_zone_id that takes an HTTP error like an empty result and asks the
\* next context
ZoneQueryTryNext(p) ==
    /\ proc[p].pc = "zone_query"
    /\ LET pr == proc[p]
           auth == pr.CF_HEADERS[pr.k]
           r == ZoneList(auth, pr.tld)
           ev == [Event(p, "GET zones") EXCEPT !.auth = auth, !.zone = pr.tld]
       IN  \/ /\ Log([ev EXCEPT !.status = "error"])
              /\ proc' = [proc EXCEPT ![p] =
                    AfterZoneList(pr, <<>>, "CF_API_TOKEN" \in DOMAIN env)]
           \/ /\ Log([ev EXCEPT !.result = IF r = <<>> THEN "" ELSE r[1].id])
              /\ proc' = [proc EXCEPT ![p] =
                    AfterZoneList(pr, r, "CF_API_TOKEN" \in DOMAIN env)]
    /\ UNCHANGED <<env, script, argv, records, next_id, records0>>

\* lines 77-87: one pass of the loop over CF_HEADERS, for the domain args[i]
ZoneQuery(p) ==
    /\ proc[p].pc = "zone_query"
    /\ LET pr == proc[p]
           auth == pr.CF_HEADERS[pr.k]
           r == ZoneList(auth, pr.tld)
           ev == [Event(p, "GET zones") EXCEPT !.auth = auth, !.zone = pr.tld]
       IN  \/ /\ Log([ev EXCEPT !.status = "error"])
              /\ proc' = [proc EXCEPT ![p] = Exit(@, 1, "HTTPError")]
           \/ /\ Log([ev EXCEPT !.result = IF r = <<>> THEN "" ELSE r[1].id])
              /\ proc' = [proc EXCEPT ![p] =
                    AfterZoneList(pr, r, "CF_API_TOKEN" \in DOMAIN env)]
    /\ UNCHANGED <<env, script, argv, records, next_id, records0>>

\* a hook that treats a lookup without result as an error
AfterLookupStrict(pr, record_id) ==
    IF record_id = None THEN Exit(pr, 1, "IndexError")
    ELSE IF pr.op = "deploy_challenge"
    THEN [pr EXCEPT !.pc = "create_loop", !.i = NextIndex(pr.i), !.record_id = record_id]
    ELSE [pr EXCEPT !.pc = "delete", !.record_id = record_id]

\* a delete_txt_record that skips the delete call although the record was found
AfterLookupNoDelete(pr, record_id) ==
    IF pr.op = "deploy_challenge"
    THEN IF record_id # None
         THEN [pr EXCEPT !.pc = "create_loop", !.i = NextIndex(pr.i), !.record_id = record_id]
         ELSE [pr EXCEPT !.pc = "post", !.record_id = record_id]
    ELSE [pr EXCEPT !.pc = "delete_loop", !.i = NextIndex(pr.i), !.record_id = record_id]

\* a create_txt_record without the return of line 114
AfterLookupAlwaysPost(pr, record_id) ==
    IF pr.op = "deploy_challenge"
    THEN [pr EXCEPT !.pc = "post", !.record_id = record_id]
    ELSE IF record_id # None
         THEN [pr EXCEPT !.pc = "delete", !.record_id = record_id]
         ELSE [pr EXCEPT !.pc = "delete_loop", !.i = NextIndex(pr.i), !.record_id = record_id]

\* where create_txt_record and delete_txt_record go after the record lookup
AfterLookup(pr, record_id) ==
    IF pr.op = "deploy_challenge"
    THEN IF record_id # None
         THEN [pr EXCEPT !.pc = "create_loop", !.i = NextIndex(pr.i), !.record_id = record_id]
         ELSE [pr EXCEPT !.pc = "post", !.record_id = record_id]
    ELSE IF record_id # None
         THEN [pr EXCEPT !.pc = "delete", !.record_id = record_id]
         ELSE [pr EXCEPT !.pc = "delete_loop", !.i = NextIndex(pr.i), !.record_id = record_id]

\* lines 90-100, called from line 111 or 138
Lookup(p) ==
    /\ proc[p].pc = "lookup"
    /\ LET pr == proc[p]
           ev == [Event(p, "GET dns_records") EXCEPT !.auth = pr.auth, !.zone = pr.zone_id,
                        !.name = pr.name, !.content = pr.token]
           record_id == FirstRecordId(RecordList(records, pr.zone_id, pr.name, pr.token))
       IN  \/ /\ Log([ev EXCEPT !.status = "error"])
              /\ proc' = [proc EXCEPT ![p] = Exit(@, 1, "HTTPError")]
           \/ /\ Log([ev EXCEPT !.id = record_id])
              /\ proc' = [proc EXCEPT ![p] = AfterLookup(pr, record_id)]
    /\ UNCHANGED <<env, script, argv, records, next_id, records0>>

\* lines 116-126
Post(p) ==
    /\ proc[p].pc = "post"
    /\ LET pr == proc[p]
           payload == CreatePayload(pr.name, pr.token)
           ev == [Event(p, "POST dns_records") EXCEPT !.auth = pr.auth, !.zone = pr.zone_id,
                        !.name = payload.name, !.content = payload.content,
                        !.ttl = payload.ttl]
       IN  \/ /\ Log([ev EXCEPT !.status = "error"])
              /\ proc' = [proc EXCEPT ![p] = Exit(@, 1, "HTTPError")]
              /\ UNCHANGED <<records, next_id>>
           \/ /\ Log([ev EXCEPT !.id = next_id])
              /\ records' = records \cup
                    {[id |-> next_id, zone_id |-> pr.zone_id, type |-> payload.type,
                      name |-> payload.name, content |-> payload.content,
                      ttl |-> payload.ttl]}
              /\ next_id' = next_id + 1
              /\ proc' = [proc EXCEPT ![p] =
                    [@ EXCEPT !.pc = "create_loop", !.i = NextIndex(pr.i),
                              !.record_id = next_id]]
    /\ UNCHANGED <<env, script, argv, records0>>

\* lines 173-174
Settle(p) ==
    /\ proc[p].pc = "settle"
    /\ LET pr == proc[p]
       IN  IF pr.settle_time < 0
           THEN /\ proc' = [proc EXCEPT ![p] = Exit(@, 1, "ValueError")]
                /\ UNCHANGED calls
           ELSE /\ Log([Event(p, "settle sleep") EXCEPT !.seconds = pr.settle_time, !.i = 0])
                /\ proc' = [proc EXCEPT ![p] = [@ EXCEPT !.pc = "poll_loop", !.i = 0]]
    /\ UNCHANGED <<env, script, argv, records, next_id, records0>>

\* a polling loop that gives up on a triple after one unsuccessful poll
AfterPollOnce(pr, result) ==
    CASE result \in {"True", "False"} ->
             [pr EXCEPT !.i = NextIndex(pr.i)]
      [] OTHER -> Exit(pr, 1, "UnicodeDecodeError")

\* line 178: the loop goes on to the next triple when the poll returned True,
\* and to the 30-second sleep when it returned False
AfterPoll(pr, result) ==
    CASE result = "True"  -> [pr EXCEPT !.i = NextIndex(pr.i)]
      [] result = "False" -> [pr EXCEPT !.pc = "backoff"]
      [] OTHER            -> Exit(pr, 1, "UnicodeDecodeError")

\* the polls so far that did not find the token
Retries ==
    Cardinality({n \in 1..Len(calls) :
                    calls[n].call = "TXT query" /\ calls[n].result = "False"})

\* lines 175-178: one call of _has_dns_propagated, or the end of the second loop
Poll(p) ==
    /\ proc[p].pc = "poll_loop"
    /\ LET pr == proc[p]
       IN  IF pr.i >= Len(pr.args)
           THEN /\ proc' = [proc EXCEPT ![p] = Exit(@, 0, "")]
                /\ UNCHANGED calls
           ELSE \E response \in DnsResponses(pr.args[pr.i + 3]) :
                    LET name == RecordName(pr.args[pr.i + 1])
                        token == pr.args[pr.i + 3]
                        result == HasDnsPropagated(response, token)
                    IN  /\ result = "False" => Retries < MaxRetries
                        /\ Log([Event(p, "TXT query") EXCEPT !.name = name,
                                    !.content = token, !.response = response,
                                    !.result = result])
                        /\ proc' = [proc EXCEPT ![p] =
                              AfterPoll([pr EXCEPT !.name = name, !.token = token], result)]
    /\ UNCHANGED <<env, script, argv, records, next_id, records0>>

\* lines 179-180
Backoff(p) ==
    /\ proc[p].pc = "backoff"
    /\ Log([Event(p, "backoff sleep") EXCEPT !.seconds = BackoffSeconds])
    /\ proc' = [proc EXCEPT ![p] = [@ EXCEPT !.pc = "poll_loop"]]
    /\ UNCHANGED <<env, script, argv, records, next_id, records0>>

\* a delete_txt_record without the test of lines 132-134
DeleteLoopStepNoTest(pr) ==
    LET chunk == Slice(pr.args, pr.i, ChunkSize)
    IN  IF pr.i >= Len(pr.args) THEN Exit(pr, 0, "")
        ELSE IF Len(chunk) < 3 THEN Exit(pr, 1, "IndexError")
        ELSE IF GetFld(chunk[1]) = "error" THEN Exit(pr, 1, "TldBadUrl")
        ELSE [pr EXCEPT !.pc = "zone_query", !.tld = GetFld(chunk[1]), !.k = 1,
                        !.token = chunk[3]]

\* lines 185-186 with 130-136 (to the zone lookup), or the end of the loop
DeleteLoopStep(pr) ==
    LET chunk == Slice(pr.args, pr.i, ChunkSize)
    IN  IF pr.i >= Len(pr.args) THEN Exit(pr, 0, "")
        ELSE IF Len(chunk) < 3 THEN Exit(pr, 1, "IndexError")
        ELSE IF chunk[1] = "" THEN [pr EXCEPT !.pc = "delete_loop", !.i = NextIndex(pr.i)]
        ELSE IF GetFld(chunk[1]) = "error" THEN Exit(pr, 1, "TldBadUrl")
        ELSE [pr EXCEPT !.pc = "zone_query", !.tld = GetFld(chunk[1]), !.k = 1,
                        !.token = chunk[3]]

DeleteLoop(p) ==
    /\ proc[p].pc \in {"delete_all_txt_records", "delete_loop"}
    /\ proc' = [proc EXCEPT ![p] = DeleteLoopStep(proc[p])]
    /\ UNCHANGED <<env, script, argv, records, next_id, records0, calls>>

\* a delete_txt_record that goes on although the delete call got an HTTP error
DeleteIgnoreError(p) ==
    /\ proc[p].pc = "delete"
    /\ LET pr == proc[p]
           ev == [Event(p, "DELETE dns_records") EXCEPT !.auth = pr.auth,
                        !.zone = pr.zone_id, !.id = pr.record_id]
       IN  \/ /\ Log([ev EXCEPT !.status = "error"])
              /\ proc' = [proc EXCEPT ![p] =
                    [@ EXCEPT !.pc = "delete_loop", !.i = NextIndex(pr.i)]]
              /\ UNCHANGED records
           \/ /\ \E r \in records : r.id = pr.record_id /\ r.zone_id = pr.zone_id
              /\ Log(ev)
              /\ records' = {r \in records : ~(r.id = pr.record_id /\ r.zone_id = pr.zone_id)}
              /\ proc' = [proc EXCEPT ![p] =
                    [@ EXCEPT !.pc = "delete_loop", !.i = NextIndex(pr.i)]]
    /\ UNCHANGED <<env, script, argv, next_id, records0>>

\* lines 141-144
Delete(p) ==
    /\ proc[p].pc = "delete"
    /\ LET pr == proc[p]
           ev == [Event(p, "DELETE dns_records") EXCEPT !.auth = pr.auth,
                        !.zone = pr.zone_id, !.id = pr.record_id]
       IN  \/ /\ Log([ev EXCEPT !.status = "error"])
              /\ proc' = [proc EXCEPT ![p] = Exit(@, 1, "HTTPError")]
              /\ UNCHANGED records
           \/ /\ \E r \in records : r.id = pr.record_id /\ r.zone_id = pr.zone_id
              /\ Log(ev)
              /\ records' = {r \in records : ~(r.id = pr.record_id /\ r.zone_id = pr.zone_id)}
              /\ proc' = [proc EXCEPT ![p] =
                    [@ EXCEPT !.pc = "delete_loop", !.i = NextIndex(pr.i)]]
    /\ UNCHANGED <<env, script, argv, next_id, records0>>

----------------------------------------------------------------------------
(* The inputs *)

Payload == "ignored-payload"

Triples ==
    {<<"example.com", Payload, "tok123">>,
     <<"www.example.org", Payload, "tok456">>,
     <<"", Payload, "tok123">>}

\* the flat argument lists of at most n triples
RECURSIVE Batches(_)
Batches(n) ==
    IF n = 0 THEN {<<>>}
    ELSE LET shorter == Batches(n - 1)
         IN  shorter \cup {b \o t : b \in {c \in shorter : Len(c) = 3 * (n - 1)}, t \in Triples}

\* argument lists that are not whole triples
Ragged ==
    {b \o tail : b \in Batches(1),
                 tail \in {<<"example.com">>, <<"example.com", Payload>>}}

ArgLists == Batches(MaxBatch) \cup Ragged

UnknownOp == "renew_cert"

Scripts ==
    {<<op>> : op \in OpNames \cup {UnknownOp}}
    \cup {s \in {<<"deploy_challenge", "clean_challenge">>,
                 <<"deploy_challenge", "deploy_challenge">>} : Len(s) <= MaxInvocations}

\* the environments of the main specification
Environments ==
    {<<>>,
     [n \in {"CF_API_TOKEN"} |-> <<"a">>],
     [CF_API_TOKEN |-> <<"a", " ", "a", "a">>, CF_SETTLE_TIME |-> <<"0">>,
      CF_DNS_SERVERS |-> <<"a">>],
     [CF_EMAIL |-> <<"a", " ", "a", "a">>, CF_KEY |-> <<"a", " ", "a">>,
      CF_SETTLE_TIME |-> <<"-", "1">>],
     [CF_API_TOKEN |-> <<" ">>, CF_EMAIL |-> <<"a">>, CF_KEY |-> <<"a">>],
     [CF_API_TOKEN |-> <<"a", "a">>, CF_EMAIL |-> <<"a">>, CF_SETTLE_TIME |-> <<"x">>],
     [n \in {"CF_EMAIL"} |-> <<"a">>]}

Txt(id, zone_id, name, content) ==
    [id |-> id, zone_id |-> zone_id, type |-> "TXT", name |-> name, content |-> content,
     ttl |-> TTL]

\* what the provider may hold before the first invocation
InitialRecords ==
    {{},
     {Txt(1, "zone-com", "_acme-challenge.example.com", "tok123")},
     {Txt(1, "zone-com", "_acme-challenge.example.com", "tok456"),
      [id |-> 2, zone_id |-> "zone-org", type |-> "A", name |-> "www.example.org",
       content |-> "192.0.2.1", ttl |-> 1]}}

\* the provider gives a new record an id no record has had
FirstFreeId(recs) ==
    IF recs = {} THEN 1 ELSE 1 + (CHOOSE n \in {r.id : r \in recs} : \A r \in recs : r.id <= n)

Init ==
    /\ env \in Environments
    /\ script \in Scripts
    /\ argv \in ArgLists
    /\ proc = [p \in Procs |-> Idle]
    /\ records \in InitialRecords
    /\ next_id = FirstFreeId(records)
    /\ records0 = records
    /\ calls = <<>>

Step(p) ==
    \/ LoadModule(p)
    \/ Main(p)
    \/ Notify(p)
    \/ CreateAllEnter(p)
    \/ CreateLoop(p)
    \/ ZoneQuery(p)
    \/ Lookup(p)
    \/ Post(p)
    \/ Settle(p)
    \/ Poll(p)
    \/ Backoff(p)
    \/ DeleteLoop(p)
    \/ Delete(p)

\* The client runs one hook at a time and goes on to the next operation only
\* when the hook has exited with code 0.
InvokeNext(p) ==
    /\ \A q \in Procs \ {p} : proc[q].pc \in {"idle", "exited"}
    /\ \A q \in 1..(p - 1) : proc[q].exit_code = 0
    /\ Invoke(p)

Next == \E p \in Procs : InvokeNext(p) \/ Step(p)

Spec == Init /\ [][Next]_vars

\* The credential resolver alone: the module is loaded in every environment
\* whose credential variables are unset or hold a string of at most MaxEnvLen
\* characters.
CredentialNames == {"CF_API_TOKEN", "CF_EMAIL", "CF_KEY"}

CredentialEnvironments ==
    UNION {[names -> StringsUpTo(MaxEnvLen)] : names \in SUBSET CredentialNames}

InitCred ==
    /\ env \in CredentialEnvironments
    /\ script = <<"startup_hook">>
    /\ argv = <<>>
    /\ proc = [p \in Procs |-> Idle]
    /\ records = {}
    /\ next_id = FirstFreeId(records)
    /\ records0 = records
    /\ calls = <<>>

NextCred == \E p \in Procs : InvokeNext(p) \/ LoadModule(p)

SpecCred == InitCred /\ [][NextCred]_vars

\* Two hooks started for the same challenge and running at the same time, as
\* two ACME clients (or two runs of one) make them: each is a process of its
\* own, the provider is all they share, and their steps interleave in any
\* order.  The behaviours are followed to the end of the create step (line
\* 171) of each.
InitConc ==
    /\ env \in {e \in Environments : CredentialSource(e).headers # <<>>}
    /\ script = <<"deploy_challenge", "deploy_challenge">>
    /\ argv \in Triples
    /\ proc = [p \in Procs |-> Idle]
    /\ records \in InitialRecords
    /\ next_id = FirstFreeId(records)
    /\ records0 = records
    /\ calls = <<>>

CreateStep(p) ==
    \/ LoadModule(p)
    \/ Main(p)
    \/ CreateAllEnter(p)
    \/ CreateLoop(p)
    \/ ZoneQuery(p)
    \/ Lookup(p)
    \/ Post(p)

NextConc == \E p \in Procs : Invoke(p) \/ CreateStep(p)

SpecConc == InitConc /\ [][NextConc]_vars

----------------------------------------------------------------------------
(* Reading the history *)

ProviderCalls == {"GET zones", "GET dns_records", "POST dns_records", "DELETE dns_records"}

RecordCalls == {"GET dns_records", "POST dns_records", "DELETE dns_records"}

\* the positions in the history of the calls of these kinds made by invocation p
Made(p, kinds) == {n \in 1..Len(calls) : calls[n].proc = p /\ calls[n].call \in kinds}

ExitedWith(p, code) == proc[p].pc = "exited" /\ proc[p].exit_code = code

\* the 0-based indices at which the triples of a flat argument list start
TripleStarts(args) == {i \in 0..(Len(args) - 1) : i % 3 = 0}

\* the name the record of a domain must have
ChallengeName(domain) == "_acme-challenge." \o domain

\* the TXT records of a set with this name and content
Matching(recs, name, content) ==
    {r \in recs : r.type = "TXT" /\ r.name = name /\ r.content = content}

----------------------------------------------------------------------------
\* C1: in every run of deploy_challenge, each provider call precedes the settle
\* sleep, the settle sleep happens at most once (exactly once in a run that
\* completes) and before every TXT query, and no TXT query for a triple is made
\* before a query for each earlier triple has returned True.
DeployOrdering ==
    \A p \in Procs : proc[p].op = "deploy_challenge" =>
        LET provider == Made(p, ProviderCalls)
            settles  == Made(p, {"settle sleep"})
            polls    == Made(p, {"TXT query"})
        IN  /\ Cardinality(settles) <= 1
            /\ \A c \in provider, s \in settles : c < s
            /\ \A q \in polls : \E s \in settles : s < q
            /\ ExitedWith(p, 0) => Cardinality(settles) = 1
            /\ \A q \in polls : \A i \in TripleStarts(proc[p].args) :
                  i < calls[q].i =>
                     \E m \in polls : /\ m < q
                                      /\ calls[m].i = i
                                      /\ calls[m].result = "True"

\* a completed deploy_challenge of two triples that made two create calls and
\* polled the first triple twice
DeployOrderingWitness ==
    \E p \in Procs :
        /\ proc[p].op = "deploy_challenge" /\ ExitedWith(p, 0)
        /\ Len(proc[p].args) = 6
        /\ Cardinality(Made(p, {"POST dns_records"})) = 2
        /\ Cardinality({q \in Made(p, {"TXT query"}) : calls[q].i = 0}) = 2
        /\ Cardinality({q \in Made(p, {"TXT query"}) : calls[q].i = 3}) = 1

----------------------------------------------------------------------------
\* C2: when deploy_challenge has completed on a batch none of whose records the
\* provider held before, every triple's record exists; when clean_challenge with
\* the same arguments has then completed, none of them exists and the provider
\* holds exactly the records it held at the start.
BatchRecords(recs, args) ==
    {r \in recs : \E i \in TripleStarts(args) :
        r \in Matching(recs, ChallengeName(args[i + 1]), args[i + 3])}

RoundTrip ==
    (/\ proc[1].op = "deploy_challenge" /\ ExitedWith(1, 0)
     /\ BatchRecords(records0, argv) = {})
    => /\ proc[2].pc = "idle" =>
            \A i \in TripleStarts(argv) :
                Matching(records, ChallengeName(argv[i + 1]), argv[i + 3]) # {}
       /\ (proc[2].op = "clean_challenge" /\ ExitedWith(2, 0)) =>
            /\ BatchRecords(records, argv) = {}
            /\ records = records0

\* deploy_challenge then clean_challenge, both completed, on two triples with
\* other records at the provider
RoundTripWitness ==
    /\ proc[1].op = "deploy_challenge" /\ ExitedWith(1, 0)
    /\ proc[2].op = "clean_challenge" /\ ExitedWith(2, 0)
    /\ BatchRecords(records0, argv) = {}
    /\ records0 # {}
    /\ Len(argv) = 6
    /\ Cardinality(Made(1, {"POST dns_records"})) = 2
    /\ Cardinality(Made(2, {"DELETE dns_records"})) = 2

----------------------------------------------------------------------------
\* C3: create_txt_record is idempotent in sequential use: the provider never
\* holds two TXT records with the same zone, name and content; and as long as
\* nothing was deleted, the successful create calls for a (name, content) plus
\* the records that matched it at the start number at most one, exactly one
\* once create_txt_record has looked that pair up twice, the later lookup of a
\* pair that was created finding its record.
SamePair(e, f) == e.zone = f.zone /\ e.name = f.name /\ e.content = f.content

OkCalls(kinds) == {n \in 1..Len(calls) : calls[n].call \in kinds /\ calls[n].status = "ok"}

\* the successful calls of these kinds that create_txt_record made
CreateCalls(kinds) == {n \in OkCalls(kinds) : proc[calls[n].proc].op = "deploy_challenge"}

CreatesOf(e) ==
    Cardinality({n \in OkCalls({"POST dns_records"}) : SamePair(calls[n], e)})
    + Cardinality({r \in Matching(records0, e.name, e.content) : r.zone_id = e.zone})

IdempotentCreate ==
    /\ \A r1, r2 \in records :
          (/\ r1.type = "TXT" /\ r2.type = "TXT"
           /\ r1.zone_id = r2.zone_id /\ r1.name = r2.name /\ r1.content = r2.content)
          => r1 = r2
    /\ OkCalls({"DELETE dns_records"}) = {} =>
          \A n \in CreateCalls({"GET dns_records"}) :
             /\ CreatesOf(calls[n]) <= 1
             /\ \A m \in CreateCalls({"GET dns_records", "POST dns_records"}) :
                   (m < n /\ SamePair(calls[m], calls[n])) =>
                       /\ CreatesOf(calls[n]) = 1
                       /\ calls[n].id # None

\* two successive deploy_challenge runs of a batch that names the same pair
\* twice: four lookups of the pair, one create call
IdempotentCreateWitness ==
    /\ ExitedWith(1, 0) /\ ExitedWith(2, 0)
    /\ proc[1].op = "deploy_challenge" /\ proc[2].op = "deploy_challenge"
    /\ records0 = {}
    /\ argv = <<"example.com", Payload, "tok123", "example.com", Payload, "tok123">>
    /\ Cardinality(OkCalls({"GET dns_records"})) = 4
    /\ Cardinality(OkCalls({"POST dns_records"})) = 1
    /\ Cardinality(records) = 1

----------------------------------------------------------------------------
\* C4: the propagation wait ends only on success: a deploy_challenge that has
\* begun to poll and has exited has exited with code 0, a poll having returned
\* True for every triple.
WaitEndsOnlyOnSuccess ==
    \A p \in Procs :
        (/\ proc[p].op = "deploy_challenge"
         /\ proc[p].pc = "exited"
         /\ Made(p, {"TXT query"}) # {})
        => /\ proc[p].exit_code = 0
           /\ \A i \in TripleStarts(proc[p].args) :
                 \E q \in Made(p, {"TXT query"}) :
                     calls[q].i = i /\ calls[q].result = "True"

----------------------------------------------------------------------------
\* C5: for each domain _get_zone_id queries the contexts of CF_HEADERS in
\* order, each at most once, and goes on to the next only after an empty
\* result; every record call of the domain comes after the last zone query,
\* which had a non-empty result, and carries that query's context and zone id;
\* when every context answered with an empty result the process has exited
\* with code 1 and made no record call for the domain and no provider call
\* for a later one.
Rank(n, S) == Cardinality({x \in S : x <= n})

ZoneResolution ==
    \A p \in Procs : \A i \in TripleStarts(proc[p].args) :
        LET zs == {n \in Made(p, {"GET zones"}) : calls[n].i = i}
            rc == {n \in Made(p, RecordCalls) : calls[n].i = i}
            headers == proc[p].CF_HEADERS
        IN  /\ \A n \in zs : /\ Rank(n, zs) <= Len(headers)
                             /\ calls[n].auth = headers[Rank(n, zs)]
            /\ \A n, m \in zs :
                  n < m => calls[n].status = "ok" /\ calls[n].result = ""
            /\ \A c \in rc : \E n \in zs :
                  /\ \A m \in zs : m <= n
                  /\ n < c
                  /\ calls[n].status = "ok" /\ calls[n].result # ""
                  /\ calls[c].auth = calls[n].auth
                  /\ calls[c].zone = calls[n].result
            /\ (/\ zs # {}
                /\ Cardinality(zs) = Len(headers)
                /\ \A n \in zs : calls[n].status = "ok" /\ calls[n].result = "")
               => /\ ExitedWith(p, 1)
                  /\ rc = {}
                  /\ \A c \in Made(p, ProviderCalls) : calls[c].i <= i

\* a clean_challenge whose second domain's zone was found by the second
\* context after the first answered with an empty result, and deleted from
ZoneResolutionWitness ==
    \E p \in Procs :
        LET zs == {n \in Made(p, {"GET zones"}) : calls[n].i = 3}
        IN  /\ Cardinality(zs) = 2
            /\ \E n \in zs : calls[n].result = ""
            /\ \E c \in Made(p, {"DELETE dns_records"}) : calls[c].i = 3

----------------------------------------------------------------------------
(* Reading a credential variable *)

Blank(s) == \A j \in 1..Len(s) : s[j] = " "

\* the positions at which a word of s starts, and the word that starts at j
WordStarts(s) == {j \in 1..Len(s) : s[j] # " " /\ (j = 1 \/ s[j - 1] = " ")}

WordAt(s, j) ==
    LET end == CHOOSE e \in j..Len(s) :
                   /\ \A x \in j..e : s[x] # " "
                   /\ e = Len(s) \/ s[e + 1] = " "
    IN  SubSeq(s, j, end)

\* the whitespace-separated words of s, in order
Words(s) ==
    [m \in 1..Cardinality(WordStarts(s)) |->
        WordAt(s, CHOOSE j \in WordStarts(s) : Rank(j, WordStarts(s)) = m)]

Loaded(p) == proc[p].pc \notin {"idle", "load"}

\* no credential source yields a context: the token variable is set and holds
\* no token, or it is unset and an email/key variable is unset or holds no word
NoContext(e) ==
    IF "CF_API_TOKEN" \in DOMAIN e THEN Blank(e["CF_API_TOKEN"])
    ELSE \/ "CF_EMAIL" \notin DOMAIN e
         \/ "CF_KEY" \notin DOMAIN e
         \/ Blank(e["CF_EMAIL"])
         \/ Blank(e["CF_KEY"])

----------------------------------------------------------------------------
\* C6: when no credential source yields a context, an invocation, whatever its
\* operation name, never gets past the module load, exits with code 1 and
\* makes no provider call and no TXT query.
NoCredentialsExit ==
    \A p \in Procs :
        (proc[p].pc # "idle" /\ NoContext(env))
        => /\ proc[p].pc \in {"load", "exited"}
           /\ proc[p].pc = "exited" => proc[p].exit_code = 1
           /\ Made(p, ProviderCalls \cup {"TXT query"}) = {}

\* deploy_challenge on a batch, with CF_API_TOKEN set to a blank string and a
\* usable email/key pair: exit code 1
NoCredentialsExitWitness ==
    \E p \in Procs :
        /\ ExitedWith(p, 1)
        /\ proc[p].op = "deploy_challenge" /\ Len(proc[p].args) = 6
        /\ "CF_API_TOKEN" \in DOMAIN env /\ "CF_KEY" \in DOMAIN env
        /\ NoContext(env)

----------------------------------------------------------------------------
\* C7: when CF_API_TOKEN is set and holds k whitespace-separated tokens, the
\* loaded CF_HEADERS is exactly k bearer contexts, the m-th with the m-th
\* token, whatever CF_EMAIL and CF_KEY hold.
TokenContexts ==
    \A p \in Procs :
        (Loaded(p) /\ "CF_API_TOKEN" \in DOMAIN env)
        => LET tokens == Words(env["CF_API_TOKEN"])
               headers == proc[p].CF_HEADERS
           IN  /\ Len(headers) = Len(tokens)
               /\ \A m \in 1..Len(tokens) :
                     /\ headers[m].scheme = "Bearer"
                     /\ headers[m].token = tokens[m]
                     /\ headers[m].email = <<>> /\ headers[m].key = <<>>

\* two distinct tokens, with an email and a key also set
TokenContextsWitness ==
    \E p \in Procs :
        /\ proc[p].pc = "main"
        /\ DOMAIN env = CredentialNames
        /\ env["CF_API_TOKEN"] = <<"a", "a", " ", "a">>
        /\ ~Blank(env["CF_EMAIL"]) /\ ~Blank(env["CF_KEY"])
        /\ Len(proc[p].CF_HEADERS) = 2

----------------------------------------------------------------------------
\* C8: when CF_API_TOKEN is unset and CF_EMAIL and CF_KEY hold k >= 1 words
\* each, the loaded CF_HEADERS is exactly k email/key contexts, the m-th with
\* the m-th email and the m-th key.
EmailKeyContexts ==
    \A p \in Procs :
        (/\ Loaded(p)
         /\ "CF_API_TOKEN" \notin DOMAIN env
         /\ {"CF_EMAIL", "CF_KEY"} \subseteq DOMAIN env
         /\ Len(Words(env["CF_EMAIL"])) = Len(Words(env["CF_KEY"]))
         /\ Len(Words(env["CF_EMAIL"])) >= 1)
        => LET emails == Words(env["CF_EMAIL"])
               keys == Words(env["CF_KEY"])
               headers == proc[p].CF_HEADERS
           IN  /\ proc[p].pc = "main"
               /\ Len(headers) = Len(emails)
               /\ \A m \in 1..Len(emails) :
                     /\ headers[m].scheme = "X-Auth"
                     /\ headers[m].email = emails[m]
                     /\ headers[m].key = keys[m]
                     /\ headers[m].token = <<>>

\* two emails and two keys, all different from their neighbours
EmailKeyContextsWitness ==
    \E p \in Procs :
        /\ proc[p].pc = "main"
        /\ "CF_API_TOKEN" \notin DOMAIN env
        /\ {"CF_EMAIL", "CF_KEY"} \subseteq DOMAIN env
        /\ env["CF_EMAIL"] = <<"a", " ", "a", "a">>
        /\ env["CF_KEY"] = <<"a", "a", " ", "a">>
        /\ Len(proc[p].CF_HEADERS) = 2

----------------------------------------------------------------------------
\* C9: clean_challenge makes no provider call and no TXT query for a triple
\* whose domain is the empty string, and the step that meets such a triple
\* raises nothing and leaves the records alone: it goes on to the next triple.
AtEmptyDomain(p) ==
    /\ proc[p].op = "clean_challenge"
    /\ proc[p].pc \in {"delete_all_txt_records", "delete_loop"}
    /\ proc[p].i + 3 <= Len(proc[p].args)
    /\ proc[p].args[proc[p].i + 1] = ""

NoCallForEmptyDomain ==
    \A p \in Procs : proc[p].op = "clean_challenge" =>
        \A n \in Made(p, ProviderCalls \cup {"TXT query"}) :
            proc[p].args[calls[n].i + 1] # ""

SkipsEmptyDomain ==
    \A p \in Procs :
        (AtEmptyDomain(p) /\ proc'[p] # proc[p])
        => /\ proc'[p].pc = "delete_loop"
           /\ proc'[p].i = proc[p].i + 3
           /\ calls' = calls
           /\ records' = records

EmptyDomainSkipped == []NoCallForEmptyDomain /\ [][SkipsEmptyDomain]_vars

\* a completed clean_challenge whose first triple has the empty domain and
\* whose second triple's record was deleted
EmptyDomainSkippedWitness ==
    \E p \in Procs :
        /\ proc[p].op = "clean_challenge" /\ ExitedWith(p, 0)
        /\ Len(proc[p].args) = 6 /\ proc[p].args[1] = ""
        /\ \E n \in Made(p, {"DELETE dns_records"}) : calls[n].i = 3
        /\ \A n \in Made(p, ProviderCalls) : calls[n].i = 3

----------------------------------------------------------------------------
\* C10: a record lookup that finds nothing is no error. In clean_challenge no
\* delete call for that triple follows and the process does not fail at it; in
\* deploy_challenge the create call for that triple follows. As long as no
\* create or delete call has succeeded, the provider holds its initial records.
NotFoundIsNormal ==
    /\ \A p \in Procs :
          \A n \in {m \in Made(p, {"GET dns_records"}) :
                        calls[m].status = "ok" /\ calls[m].id = None} :
             LET here(kind) == {c \in Made(p, {kind}) : calls[c].i = calls[n].i /\ c > n}
             IN  /\ proc[p].op = "clean_challenge" =>
                     /\ here("DELETE dns_records") = {}
                     /\ ~(ExitedWith(p, 1) /\ proc[p].i = calls[n].i)
                 /\ proc[p].op = "deploy_challenge" =>
                     \/ proc[p].pc = "post" /\ proc[p].i = calls[n].i
                     \/ here("POST dns_records") # {}
    /\ OkCalls({"POST dns_records", "DELETE dns_records"}) = {} => records = records0

\* a completed clean_challenge of one triple whose zone holds other records
\* but not the triple's
NotFoundIsNormalWitness ==
    \E p \in Procs :
        /\ proc[p].op = "clean_challenge" /\ ExitedWith(p, 0)
        /\ Len(proc[p].args) = 3
        /\ \E n \in Made(p, {"GET dns_records"}) :
              calls[n].status = "ok" /\ calls[n].id = None
        /\ Made(p, {"DELETE dns_records"}) = {}
        /\ \E r \in records : r.zone_id = proc[p].zone_id
        /\ records = records0

----------------------------------------------------------------------------
NotificationOps ==
    {"deploy_cert", "unchanged_cert", "invalid_challenge", "startup_hook", "exit_hook"}

AnyCall == ProviderCalls \cup {"TXT query", "settle sleep", "backoff sleep"}

\* C11: with usable credentials, an invocation of a notification handler makes
\* no provider call and no TXT query and, whatever its argument list, does not
\* fail: when it has exited, it has exited with code 0.
NotificationsNeverFail ==
    \A p \in Procs :
        (proc[p].op \in NotificationOps /\ ~NoContext(env))
        => /\ Made(p, AnyCall) = {}
           /\ proc[p].pc = "exited" => proc[p].exit_code = 0 /\ proc[p].error = ""

----------------------------------------------------------------------------
\* the seven operation names and the positions of the handler of each
TableOps == {"deploy_challenge", "clean_challenge"} \cup NotificationOps

EntryOf(op) ==
    CASE op = "deploy_challenge" -> "create_all_txt_records"
      [] op = "clean_challenge"  -> "delete_all_txt_records"
      [] OTHER                   -> op

HandlerPositions(op) ==
    CASE op = "deploy_challenge" ->
             {"create_all_txt_records", "create_loop", "zone_query", "lookup", "post",
              "settle", "poll_loop", "backoff"}
      [] op = "clean_challenge" ->
             {"delete_all_txt_records", "delete_loop", "zone_query", "lookup", "delete"}
      [] op \in NotificationOps -> {op}
      [] OTHER -> {}

HandlerCalls(op) ==
    CASE op = "deploy_challenge" -> AnyCall \ {"DELETE dns_records"}
      [] op = "clean_challenge"  -> {"GET zones", "GET dns_records", "DELETE dns_records"}
      [] OTHER                   -> {}

\* C12: with usable credentials, an invocation with an operation name outside
\* the table runs no handler, makes no call and exits with code 0; one with a
\* name in the table goes from main into the handler of that name, with the
\* arguments that followed the name, and is never in another handler nor makes
\* a call of another handler.
DispatchedRight ==
    \A p \in Procs :
        (proc[p].pc # "idle" /\ ~NoContext(env))
        => /\ proc[p].pc \in {"load", "main", "exited"} \cup HandlerPositions(proc[p].op)
           /\ proc[p].args = argv
           /\ Made(p, AnyCall \ HandlerCalls(proc[p].op)) = {}
           /\ (proc[p].op \notin TableOps /\ proc[p].pc = "exited")
              => proc[p].exit_code = 0 /\ proc[p].error = ""

DispatchStep ==
    \A p \in Procs :
        (proc[p].pc = "main" /\ proc'[p] # proc[p])
        => /\ calls' = calls /\ records' = records
           /\ IF proc[p].op \in TableOps
              THEN proc'[p] = [proc[p] EXCEPT !.pc = EntryOf(proc[p].op)]
              ELSE proc'[p] = [proc[p] EXCEPT !.pc = "exited"]

Dispatch == []DispatchedRight /\ [][DispatchStep]_vars

\* an invocation with an unknown operation name and two triples of arguments
\* that has exited with code 0
DispatchWitness ==
    \E p \in Procs :
        /\ proc[p].op \notin TableOps /\ ExitedWith(p, 0)
        /\ proc[p].CF_HEADERS # <<>>
        /\ Len(proc[p].args) = 6

----------------------------------------------------------------------------
\* the token is one of the strings of some TXT record of the answer
TokenInAnswer(response, token) ==
    /\ response.exception = ""
    /\ \E j \in 1..Len(response.answer) :
          \E m \in 1..Len(response.answer[j]) :
              response.answer[j][m].utf8 /\ response.answer[j][m].text = token

\* the calls an invocation made after the n-th entry of the history
After(p, n) == {m \in Made(p, AnyCall) : m > n}

\* a poll that returned False is followed by the 30-second sleep and then by
\* another poll of the same name and token, and the process has not ended
RetriedAfter(p, n) ==
    LET later == After(p, n)
        nth(k) == CHOOSE m \in later : Rank(m, later) = k
    IN  /\ later = {} => proc[p].pc = "backoff"
        /\ later # {} => /\ calls[nth(1)].call = "backoff sleep"
                         /\ calls[nth(1)].seconds = 30
        /\ Cardinality(later) = 1 => proc[p].pc = "poll_loop"
        /\ Cardinality(later) >= 2 => /\ calls[nth(2)].call = "TXT query"
                                      /\ calls[nth(2)].name = calls[n].name
                                      /\ calls[nth(2)].content = calls[n].content

\* C13: every call of _has_dns_propagated returns True or False, True exactly
\* when some TXT record of the answer holds the token among its strings, False
\* on every resolver exception; and a poll that returned False only leads to
\* the 30-second sleep and another poll, never to the end of the process.
PropagationQuery ==
    \A p \in Procs : \A n \in Made(p, {"TXT query"}) :
        /\ calls[n].result \in {"True", "False"}
        /\ calls[n].result = "True" <=> TokenInAnswer(calls[n].response, calls[n].content)
        /\ calls[n].response.exception # "" => calls[n].result = "False"
        /\ calls[n].result = "False" => RetriedAfter(p, n)

----------------------------------------------------------------------------
\* the provider calls invocation p made for the triple that starts at i
CallsFor(p, i, kinds) == {n \in Made(p, kinds) : calls[n].i = i}

\* the zone of the triple at i was not found: every context was asked and
\* every answer was an empty result
ZoneNotFound(p, i) ==
    LET zs == CallsFor(p, i, {"GET zones"})
    IN  /\ zs # {}
        /\ Cardinality(zs) = Len(proc[p].CF_HEADERS)
        /\ \A n \in zs : calls[n].status = "ok" /\ calls[n].result = ""

\* a provider call for the triple at i was answered with an HTTP error
HttpErrorAt(p, i) == \E n \in CallsFor(p, i, ProviderCalls) : calls[n].status = "error"

\* C14: when the creation of the record of triple i fails in deploy_challenge
\* (zone not found, or an HTTP error on a provider call), the process has ended
\* with code 1, it has made no provider call for a later triple, no settle
\* sleep, no poll and no delete call, and every record it created before, like
\* every record the provider held at the start, is still there.
BatchAborted ==
    \A p \in Procs : proc[p].op = "deploy_challenge" =>
        \A i \in TripleStarts(proc[p].args) :
            (ZoneNotFound(p, i) \/ HttpErrorAt(p, i))
            => /\ ExitedWith(p, 1)
               /\ \A c \in Made(p, ProviderCalls) : calls[c].i <= i
               /\ Made(p, {"settle sleep", "TXT query", "backoff sleep"}) = {}
               /\ Made(p, {"DELETE dns_records"}) = {}
               /\ \A m \in Made(p, {"POST dns_records"}) :
                     calls[m].status = "ok" =>
                        \E r \in records : /\ r.id = calls[m].id
                                           /\ r.name = calls[m].name
                                           /\ r.content = calls[m].content
               /\ records0 \subseteq records

\* a deploy_challenge of two triples that created the first record and then
\* failed at the second triple, whose zone no context lists
BatchAbortedWitness ==
    \E p \in Procs :
        /\ proc[p].op = "deploy_challenge" /\ ExitedWith(p, 1)
        /\ Len(proc[p].args) = 6
        /\ \E m \in CallsFor(p, 0, {"POST dns_records"}) : calls[m].status = "ok"
        /\ ZoneNotFound(p, 3)
        /\ Cardinality(records) = Cardinality(records0) + 1

----------------------------------------------------------------------------
\* C15: an HTTP error on a provider call is fatal and nothing is retried: the
\* call that got the error is the last call of its invocation (it is not made
\* again, no later context is asked, no other call follows), the process has
\* ended with a non-zero code; and only a create or delete call that succeeded
\* has added or removed a record.
HttpErrorFatal ==
    /\ \A p \in Procs : \A n \in Made(p, ProviderCalls) :
          calls[n].status = "error"
          => /\ proc[p].pc = "exited" /\ proc[p].exit_code # 0
             /\ After(p, n) = {}
    /\ \A r \in records \ records0 :
          \E n \in OkCalls({"POST dns_records"}) : calls[n].id = r.id
    /\ \A r \in records0 \ records :
          \E n \in OkCalls({"DELETE dns_records"}) : calls[n].id = r.id

\* an invocation with two contexts whose zone query with the first context got
\* an HTTP error for the second triple, after calls that succeeded
HttpErrorFatalWitness ==
    \E p \in Procs :
        /\ Len(proc[p].CF_HEADERS) = 2
        /\ ExitedWith(p, 1)
        /\ \E n \in CallsFor(p, 3, {"GET zones"}) :
              /\ calls[n].status = "error"
              /\ calls[n].auth = proc[p].CF_HEADERS[1]
        /\ CallsFor(p, 0, RecordCalls) # {}

----------------------------------------------------------------------------
\* C16: clean_challenge makes its provider calls triple by triple in input
\* order, each call at most once (a zone query once per context); when the
\* zone of triple i is not found or a call for it got an HTTP error, the
\* process has ended with code 1 and has made no call for a later triple; and
\* a record whose delete call succeeded is gone.
CleanSequential ==
    \A p \in Procs : proc[p].op = "clean_challenge" =>
        /\ \A n, m \in Made(p, ProviderCalls) : n < m => calls[n].i <= calls[m].i
        /\ \A i \in TripleStarts(proc[p].args) :
              /\ Cardinality(CallsFor(p, i, {"GET zones"})) <= Len(proc[p].CF_HEADERS)
              /\ Cardinality(CallsFor(p, i, {"GET dns_records"})) <= 1
              /\ Cardinality(CallsFor(p, i, {"DELETE dns_records"})) <= 1
              /\ (ZoneNotFound(p, i) \/ HttpErrorAt(p, i))
                 => /\ ExitedWith(p, 1)
                    /\ \A c \in Made(p, ProviderCalls) : calls[c].i <= i
        /\ \A m \in Made(p, {"DELETE dns_records"}) :
              calls[m].status = "ok" => \A r \in records : r.id # calls[m].id

\* a clean_challenge of two triples that deleted the record of the first and
\* failed on the delete call of the second
CleanSequentialWitness ==
    \E p \in Procs :
        /\ proc[p].op = "clean_challenge" /\ ExitedWith(p, 1)
        /\ Len(proc[p].args) = 6
        /\ \E m \in CallsFor(p, 0, {"DELETE dns_records"}) : calls[m].status = "ok"
        /\ \E m \in CallsFor(p, 3, {"DELETE dns_records"}) : calls[m].status = "error"

----------------------------------------------------------------------------
\* the entry of the history names the record of the triple it was made for
ForItsTriple(p, n) ==
    /\ calls[n].name = ChallengeName(proc[p].args[calls[n].i + 1])
    /\ calls[n].content = proc[p].args[calls[n].i + 3]

\* C17: every create call carries the name "_acme-challenge." followed by the
\* domain of its triple, the third element of the triple as content and ttl
\* 120, and the record it adds has these fields and type TXT; every record
\* lookup and every poll carries the same name and token, and every delete call
\* the id that the lookup of its triple returned.
PayloadFields ==
    /\ \A p \in Procs :
          /\ \A n \in Made(p, {"POST dns_records"}) :
                ForItsTriple(p, n) /\ calls[n].ttl = 120
          /\ \A n \in Made(p, {"GET dns_records", "TXT query"}) : ForItsTriple(p, n)
          /\ \A n \in Made(p, {"DELETE dns_records"}) :
                \E l \in CallsFor(p, calls[n].i, {"GET dns_records"}) :
                    l < n /\ calls[l].id = calls[n].id /\ calls[l].id # None
    /\ \A r \in records :
          (\A o \in records0 : o.id # r.id)
          => /\ r.type = "TXT" /\ r.ttl = 120
             /\ \E n \in OkCalls({"POST dns_records"}) :
                   /\ calls[n].id = r.id
                   /\ calls[n].name = r.name /\ calls[n].content = r.content
                   /\ calls[n].zone = r.zone_id

\* a deploy_challenge that created the records of two triples with different
\* domains and tokens and found the second token propagated
PayloadFieldsWitness ==
    \E p \in Procs :
        /\ proc[p].args = <<"example.com", Payload, "tok123",
                            "www.example.org", Payload, "tok456">>
        /\ \E n \in CallsFor(p, 0, {"POST dns_records"}) : calls[n].status = "ok"
        /\ \E n \in CallsFor(p, 3, {"POST dns_records"}) : calls[n].status = "ok"
        /\ \E n \in CallsFor(p, 3, {"TXT query"}) : calls[n].result = "True"
        /\ Cardinality(records \ records0) = 2

----------------------------------------------------------------------------
\* both invocations are past the first loop of create_all_txt_records, or ended
CreateStepsDone == \A p \in 1..2 : proc[p].pc \in {"settle", "exited"}

SameRecord(r1, r2) ==
    /\ r1.type = "TXT" /\ r2.type = "TXT"
    /\ r1.zone_id = r2.zone_id /\ r1.name = r2.name /\ r1.content = r2.content

\* C18 as stated: when two invocations that run deploy_challenge for the same
\* (domain, token) at the same time have finished their create step, the
\* provider holds at most one TXT record with that name and content.
OneRecordWhenConcurrent ==
    CreateStepsDone => \A r1, r2 \in records : SameRecord(r1, r2) => r1 = r2

\* C18 as amended: a second create call for the same (name, content) is made
\* only by an invocation whose record lookup was answered, with no id, before
\* the first create call succeeded; so the provider holds at most one such
\* record unless both lookups came before both create calls, and then it holds
\* one per create call.
ConcurrentCreate ==
    /\ \A n1, n2 \in OkCalls({"POST dns_records"}) :
          (n1 < n2 /\ SamePair(calls[n1], calls[n2]))
          => \E l \in CallsFor(calls[n2].proc, calls[n2].i, {"GET dns_records"}) :
                /\ l < n1
                /\ calls[l].status = "ok" /\ calls[l].id = None
                /\ SamePair(calls[l], calls[n2])
    /\ \A r \in records :
          Cardinality({o \in records : SameRecord(o, r)})
          <= Cardinality({o \in records0 : SameRecord(o, r)})
             + Cardinality({n \in OkCalls({"POST dns_records"}) :
                               calls[n].name = r.name /\ calls[n].content = r.content})
    /\ \A r \in records :
          (\E o \in records0 : SameRecord(o, r))
          => Cardinality({o \in records : SameRecord(o, r)}) = 1

\* both invocations have finished their create step without error, each after a
\* create call that succeeded, and the provider holds two records of the pair
ConcurrentCreateWitness ==
    /\ CreateStepsDone
    /\ \A p \in 1..2 : proc[p].pc = "settle"
    /\ \E r1, r2 \in records : SameRecord(r1, r2) /\ r1 # r2
    /\ Cardinality(OkCalls({"POST dns_records"})) = 2

----------------------------------------------------------------------------
\* the last zone query invocation p made before the n-th entry of the history
\* (0 when it made none)
LastZoneQuery(p, n) ==
    LET before == {z \in Made(p, {"GET zones"}) : z < n}
    IN  IF before = {} THEN 0 ELSE CHOOSE z \in before : \A o \in before : o <= z

\* C19: every record lookup, create call and delete call comes after a zone
\* query of its invocation, and the last zone query before it was made for the
\* same triple, succeeded with a zone, and gave the context and the zone id
\* the call carries: the zone of the triple's domain, listed for that context.
OwnZoneLookup ==
    \A p \in Procs : \A c \in Made(p, RecordCalls) :
        LET z == LastZoneQuery(p, c)
        IN  /\ z # 0
            /\ calls[z].i = calls[c].i
            /\ calls[z].status = "ok" /\ calls[z].result # ""
            /\ calls[c].auth = calls[z].auth
            /\ calls[c].zone = calls[z].result
            /\ calls[z].zone \in ZoneNames
            /\ calls[c].zone = ZoneIdOf[calls[z].zone]
            /\ Principal(calls[c].auth) \in ZoneAccess[calls[z].zone]

\* an invocation that made record calls for two triples whose zones differ and
\* are listed for different contexts
OwnZoneLookupWitness ==
    \E p \in Procs :
        \E c1 \in CallsFor(p, 0, {"POST dns_records", "DELETE dns_records"}) :
            \E c2 \in CallsFor(p, 3, {"POST dns_records", "DELETE dns_records"}) :
                /\ calls[c1].status = "ok" /\ calls[c2].status = "ok"
                /\ calls[c1].zone # calls[c2].zone
                /\ calls[c1].auth = proc[p].CF_HEADERS[1]
                /\ calls[c2].auth = proc[p].CF_HEADERS[2]

----------------------------------------------------------------------------
\* the record is the challenge record of a triple of these arguments
RecordOfTriple(r, args) ==
    \E i \in TripleStarts(args) :
        /\ i + 3 <= Len(args)
        /\ r.type = "TXT"
        /\ r.name = ChallengeName(args[i + 1])
        /\ r.content = args[i + 3]

\* C20: clean_challenge makes no create call and at most one delete call per
\* triple, for the id that the lookup of that triple's name and token returned;
\* deploy_challenge makes no delete call and at most one create call per triple;
\* so a record that is gone was the record of a triple of a clean_challenge,
\* a record that is new is the record of a triple of a deploy_challenge, one
\* per create call, and every other record is as it was.
Frame ==
    /\ \A p \in Procs : proc[p].op = "clean_challenge" =>
          /\ Made(p, {"POST dns_records"}) = {}
          /\ \A i \in TripleStarts(proc[p].args) :
                Cardinality(CallsFor(p, i, {"DELETE dns_records"})) <= 1
          /\ \A d \in Made(p, {"DELETE dns_records"}) :
                \E l \in CallsFor(p, calls[d].i, {"GET dns_records"}) :
                    /\ l < d
                    /\ calls[l].id = calls[d].id /\ calls[l].zone = calls[d].zone
                    /\ ForItsTriple(p, l)
    /\ \A p \in Procs : proc[p].op = "deploy_challenge" =>
          /\ Made(p, {"DELETE dns_records"}) = {}
          /\ \A i \in TripleStarts(proc[p].args) :
                Cardinality(CallsFor(p, i, {"POST dns_records"})) <= 1
    /\ \A r \in records0 \ records :
          \E p \in Procs : proc[p].op = "clean_challenge" /\ RecordOfTriple(r, proc[p].args)
    /\ \A r \in records \ records0 :
          \E p \in Procs : proc[p].op = "deploy_challenge" /\ RecordOfTriple(r, proc[p].args)
    /\ Cardinality(records \ records0) <= Cardinality(OkCalls({"POST dns_records"}))

\* a completed clean_challenge that deleted the record of its triple while the
\* provider holds another TXT record with the same name and another token, and
\* a record of another type
FrameWitness ==
    \E p \in Procs :
        /\ proc[p].op = "clean_challenge" /\ ExitedWith(p, 0)
        /\ \E d \in Made(p, {"DELETE dns_records"}) : calls[d].status = "ok"
        /\ \E r \in records : /\ r.type = "TXT"
                              /\ r.name = ChallengeName(proc[p].args[1])
                              /\ r.content # proc[p].args[3]
        /\ \E r \in records : r.type # "TXT"
        /\ records0 \subseteq records

====
